---- MODULE Spec2Model ----
(***************************************************************************)
(* Model of scripts/select_artworks_manual.py: the quota-filling loop      *)
(* (generate_category), the batch filter (generate_batch) and the category *)
(* driver (main).                                                          *)
(*                                                                         *)
(* Strings are sequences of code points (97 = "a", 65 = "A", 32 = " ",     *)
(* 58 = ":"), so that lower(), strip() and the "artist:title" key are      *)
(* computed, not assumed.  A record is a function from field names to      *)
(* values, and a field may be absent, as in a Python dict.  The field obj  *)
(* stands for the identity of the Python object: <<0, i>> for the i-th     *)
(* record loaded from the input file, <<c, n>> for a record parsed during  *)
(* the run of the c-th category.                                           *)
(***************************************************************************)
EXTENDS Integers, Sequences, FiniteSets, TLC

VARIABLES
    pc,                   \* position of main: start, check, loop, running, done
    exitCode,             \* -1 while running, then the process exit status
    inputFile,            \* "missing", "malformed" or "ok": the file at INPUT_PATH
    inputCfg,             \* the content of the input file (see Dataset)
    GEMINI_KEY,           \* the credential configured in the script
    generator,            \* which responses the external generator gives (see Responses)
    existing,             \* main: existing
    gaps,                 \* main: gaps
    catIdx,               \* main: position of the for loop over gaps.items()
    all_new,              \* main: all_new
    all_artworks,         \* main: all_artworks
    output,               \* documents written to OUTPUT_PATH, in order
    outDirMade,           \* OUTPUT_PATH.parent.mkdir was executed
    target,               \* generate_category: target
    new_artworks,         \* generate_category: new_artworks
    attempts,             \* generate_category: attempts
    consecutive_low_yield,\* generate_category: consecutive_low_yield
    max_attempts,         \* generate_category: max_attempts
    remaining,            \* generate_category: remaining
    batch_size,           \* generate_category: batch_size
    batch,                \* generate_category: batch
    lastSleep,            \* seconds slept by the latest iteration (0: none)
    raised,               \* the latest iteration ended in the except branch
    known,                \* generate_batch: existing_artworks, as passed by the latest call
    iterations,           \* history: iterations of the while loop in the current run
    lowRun,               \* history: low-yield iterations in a row up to the latest one
    runs,                 \* history: <<category, target>> of each generate_category call
    results,              \* history: list returned by generate_category, per category
    called,               \* history: categories for which the generator was called
    discarded,            \* history: records of a batch cut off by batch[:remaining]
    probe                 \* argument and result of a function examined on its own

vars == <<pc, exitCode, inputFile, inputCfg, GEMINI_KEY, generator, existing, gaps, catIdx,
          all_new, all_artworks, output, outDirMade, target, new_artworks,
          attempts, consecutive_low_yield, max_attempts, remaining, batch_size,
          batch, lastSleep, raised, known, iterations, lowRun, runs, results, called,
          discarded, probe>>

mainVars == <<existing, gaps, catIdx, all_new, all_artworks, output, outDirMade>>
loopVars == <<target, new_artworks, attempts, consecutive_low_yield, max_attempts,
              remaining, batch_size, batch, lastSleep, raised, known>>
histVars == <<iterations, lowRun, runs, results, called, discarded>>
inputVars == <<inputFile, inputCfg, GEMINI_KEY, generator, probe>>

(***************************************************************************)
(* Bounds of the model and constants of the program.                       *)
(***************************************************************************)
MaxGap == 1
MaxShortfall == 2
BATCH_SIZE == 10
DELAY_SECONDS == 2

Categories == <<"painting", "sculpture", "architecture">>

DesiredTotal(category) ==
    CASE category = "painting" -> 200
      [] category = "sculpture" -> 64
      [] category = "architecture" -> 64

Range(s) == {s[i] : i \in 1..Len(s)}

Min(a, b) == IF a < b THEN a ELSE b
Max(a, b) == IF a > b THEN a ELSE b

(***************************************************************************)
(* Strings and the identity key.                                           *)
(***************************************************************************)
IsSpace(c) == c = 32 \/ (c >= 9 /\ c <= 13)

LowerChar(c) == IF c >= 65 /\ c <= 90 THEN c + 32 ELSE c

Lower(s) == [i \in 1..Len(s) |-> LowerChar(s[i])]

RECURSIVE Strip(_)
Strip(s) ==
    IF s = <<>> THEN s
    ELSE IF IsSpace(s[1]) THEN Strip(Tail(s))
    ELSE IF IsSpace(s[Len(s)]) THEN Strip(SubSeq(s, 1, Len(s) - 1))
    ELSE s

\* dict.get(field, default)
Get(r, field, default) == IF field \in DOMAIN r THEN r[field] ELSE default

\* dict[field] = value
SetField(r, field, value) ==
    [f \in DOMAIN r \cup {field} |-> IF f = field THEN value ELSE r[f]]

\* mutant: the two halves are lowered but not trimmed
Key_NoStrip(a) ==
    Lower(Get(a, "artist", <<>>)) \o <<58>> \o Lower(Get(a, "title", <<>>))

Key(a) ==
    Strip(Lower(Get(a, "artist", <<>>))) \o <<58>> \o Strip(Lower(Get(a, "title", <<>>)))

(***************************************************************************)
(* generate_batch: the filter applied to a parsed response.                *)
(***************************************************************************)
ExistingKeys(existing_artworks) == {Key(a) : a \in Range(existing_artworks)}

\* mutant: the key of an accepted record is not added to existing_keys
RECURSIVE UniqueNew_NoAdd(_, _)
UniqueNew_NoAdd(artworks, existing_keys) ==
    IF artworks = <<>> THEN <<>>
    ELSE IF Key(Head(artworks)) \in existing_keys
         THEN UniqueNew_NoAdd(Tail(artworks), existing_keys)
         ELSE <<Head(artworks)>> \o UniqueNew_NoAdd(Tail(artworks), existing_keys)

\* lines 271-279
RECURSIVE UniqueNew(_, _)
UniqueNew(artworks, existing_keys) ==
    IF artworks = <<>> THEN <<>>
    ELSE LET key == Key(Head(artworks))
         IN  IF key \in existing_keys
             THEN UniqueNew(Tail(artworks), existing_keys)
             ELSE <<Head(artworks)>> \o UniqueNew(Tail(artworks), existing_keys \cup {key})

\* mutant: the accumulated records are left out
Known_ExistingOnly(existing_list, accumulated) == existing_list

\* line 315: the records generate_batch is told to avoid
Known(existing_list, accumulated) == existing_list \o accumulated

\* json.loads builds new objects: the k-th record of the filtered batch of run c
\* taken when n records were accepted is the object <<c, n + k>>.
Fresh(unique_new, c, n) ==
    [k \in 1..Len(unique_new) |-> SetField(unique_new[k], "obj", <<c, n + k>>)]

(***************************************************************************)
(* generate_category: the pieces of one iteration.                         *)
(***************************************************************************)
\* mutant: the budget has no slack
MaxAttempts_NoSlack(t) == t \div BATCH_SIZE

\* line 295
MaxAttempts(t) == (t \div BATCH_SIZE) + 20

\* mutant: one attempt too many
LoopGuard_OffByOne(n, t, a, m) == n < t /\ a <= m

\* line 301
LoopGuard(n, t, a, m) == n < t /\ a < m

\* mutant: the buffer grows without limit
BatchSize_NoCap(a, rem) == Min(BATCH_SIZE + (a \div 3), rem + 5)

BatchSize(a, rem) == Min(BATCH_SIZE + Min(5, a \div 3), rem + 5)

\* mutant: anything short of the requested number counts as low
LowYield_BelowAll(n, size) == IF size > 0 THEN n < size ELSE TRUE

\* len(batch) / batch_size < 0.5
LowYield(n, size) == IF size > 0 THEN 2 * n < size ELSE TRUE

\* mutant: the whole batch is taken
ToAdd_NoTrim(b, rem) == b

\* batch[:remaining]
ToAdd(b, rem) == SubSeq(b, 1, Min(Len(b), rem))

\* mutant: the accumulated list is replaced by the new records
Extend_Replace(list, to_add) == to_add

\* line 330: new_artworks.extend(to_add)
Extend(list, to_add) == list \o to_add

\* mutant: no pause between two batches unless the streak is full
Pause_OnlyOnStreak(low, n, t) == IF low >= 3 THEN DELAY_SECONDS * 2 ELSE 0

\* lines 335-341: the seconds slept after a parsed batch, for the streak low
\* and n records accumulated
Pause(low, n, t) ==
    IF low >= 3 THEN DELAY_SECONDS * 2
    ELSE IF n < t THEN DELAY_SECONDS
    ELSE 0

\* batch[remaining:], which no variable keeps
Overflow(b, rem) == {b[k] : k \in (Min(Len(b), rem) + 1)..Len(b)}

(***************************************************************************)
(* main: the pieces.                                                       *)
(***************************************************************************)
CountIn(list, category) ==
    Cardinality({i \in 1..Len(list) : Get(list[i], "category", <<>>) = category})

\* mutant: no max(0, ...)
Gap_NoClamp(list, category) == DesiredTotal(category) - CountIn(list, category)

Gap(list, category) == Max(0, DesiredTotal(category) - CountIn(list, category))

Gaps(list) == [c \in Range(Categories) |-> Gap(list, c)]

\* mutant: only the first category counts
TotalNeeded_PaintingOnly(g) == g["painting"]

TotalNeeded(g) == g["painting"] + g["sculpture"] + g["architecture"]

\* mutant: the empty credential passes
BadKey_PlaceholderOnly(k) == k = "YOUR_ACTUAL_API_KEY_HERE"

BadKey(k) == k = "YOUR_ACTUAL_API_KEY_HERE" \/ k = ""

\* mutant: ids from 0
Renumber_ZeroBased(list) == [i \in 1..Len(list) |-> SetField(list[i], "id", i - 1)]

Renumber(list) == [i \in 1..Len(list) |-> SetField(list[i], "id", i)]

(***************************************************************************)
(* Inputs: the datasets the input file may hold and the responses the      *)
(* generator may give.                                                     *)
(***************************************************************************)
\* the i-th record of a well-formed input: a caseless one-character title
Filler(i, category) ==
    [artist |-> <<117>>, title |-> <<19968 + i>>, category |-> category, id |-> 7]

FillerSeq(from, n, category) == [k \in 1..n |-> Filler(from + k, category)]

\* extra records at the end of the input: two paintings whose keys agree after
\* normalisation; a record of a category outside the three
TwinExtra ==
    << [artist |-> <<97>>, title |-> <<98>>, category |-> "painting", id |-> 1],
       [artist |-> <<32, 65>>, title |-> <<66, 32>>, category |-> "painting", id |-> 1] >>

PrintExtra == << [artist |-> <<97>>, title |-> <<100>>, category |-> "print"] >>

\* how many records each category is short of its desired total
GapVectors ==
    {g \in [1..3 -> 0..MaxGap] :
        /\ g[2] <= 1 /\ g[3] <= 1 /\ g[1] + g[2] + g[3] <= MaxShortfall
        \* with paintings missing, at most one more category is short, and
        \* with several paintings missing it is sculpture
        /\ g[1] > 0 => g[2] + g[3] <= 1
        /\ g[1] > 1 => g[3] = 0}

\* <<content of the input file, behaviour of the generator>>
InputCases ==
    {<<[short |-> g, extra |-> <<>>], "any">> : g \in GapVectors}
    \cup {<<[short |-> <<2, 0, 0>>, extra |-> <<>>], "any">>,
          <<[short |-> <<0, 0, 0>>, extra |-> TwinExtra], "any">>,
          <<[short |-> <<4, 0, 0>>, extra |-> TwinExtra], "any">>,
          <<[short |-> <<1, 0, 0>>, extra |-> PrintExtra], "any">>,
          <<[short |-> <<0, 10, 0>>, extra |-> <<>>], "dry">>,
          <<[short |-> <<0, 0, 11>>, extra |-> <<>>], "dry">>,
          <<[short |-> <<5, 0, 0>>, extra |-> <<>>], "bulk">>}

NoConfig == [short |-> <<0, 0, 0>>, extra |-> <<>>]

Dataset(cfg) ==
    LET np == DesiredTotal("painting") - cfg.short[1]
        ns == DesiredTotal("sculpture") - cfg.short[2]
        na == DesiredTotal("architecture") - cfg.short[3]
        raw == FillerSeq(0, np, "painting") \o FillerSeq(np, ns, "sculpture")
               \o FillerSeq(np + ns, na, "architecture") \o cfg.extra
    IN  [i \in 1..Len(raw) |-> SetField(raw[i], "obj", <<0, i>>)]

RA == [artist |-> <<97>>, title |-> <<98>>, category |-> "painting"]
RB == [artist |-> <<32, 65>>, title |-> <<66, 32>>, category |-> "painting"]
RC == [artist |-> <<97>>, title |-> <<99>>, category |-> "sculpture", id |-> 1]
RD == [title |-> <<99>>, category |-> "print"]
RF == [artist |-> <<85>>, title |-> <<19969>>, category |-> "architecture"]
Big == [k \in 1..8 |-> [artist |-> <<98>>, title |-> <<100 + k>>, category |-> "painting"]]

\* the lists a response may parse to: any of them; only lists without a new
\* key; or few records or many
Responses(gen) ==
    CASE gen = "any" -> { <<>>, <<RA>>, <<RB, RA, RC>>, <<RF, RC>>, <<RD>>, Big }
      [] gen = "dry" -> { <<>>, <<RF>>, <<RF, RF>> }
      [] gen = "bulk" -> { <<>>, <<RA>>, Big }

\* the answer of a cooperative generator to the call of run c made when n
\* records were accepted: as many records as requested, with keys that no
\* record known to the run has
Cooperative(size, c, n) ==
    [k \in 1..size |-> [artist |-> <<99>>, title |-> <<1000 + 100 * c + n + k>>,
                        category |-> Categories[c]]]

\* the lists the response to a request for size records may parse to
Answers(gen, size, c, n) ==
    IF gen = "full" THEN {Cooperative(size, c, n)} ELSE Responses(gen)

Failures == {"call", "decode", "notlist"}

(***************************************************************************)
(* Initial state: the script has been started, nothing has been read.      *)
(***************************************************************************)
InitWith(cases) ==
    /\ pc = "start"
    /\ exitCode = -1
    /\ inputFile \in {"missing", "malformed", "ok"}
    /\ \E case \in IF inputFile = "ok" THEN cases ELSE {<<NoConfig, "any">>} :
          /\ inputCfg = case[1]
          /\ generator = case[2]
    /\ GEMINI_KEY \in {"", "YOUR_ACTUAL_API_KEY_HERE", "key"}
    /\ existing = <<>>
    /\ gaps = [c \in Range(Categories) |-> 0]
    /\ catIdx = 0
    /\ all_new = <<>>
    /\ all_artworks = <<>>
    /\ output = <<>>
    /\ outDirMade = FALSE
    /\ target = 0
    /\ new_artworks = <<>>
    /\ attempts = 0
    /\ consecutive_low_yield = 0
    /\ max_attempts = 0
    /\ remaining = 0
    /\ batch_size = 0
    /\ batch = <<>>
    /\ lastSleep = 0
    /\ raised = FALSE
    /\ known = <<>>
    /\ iterations = 0
    /\ lowRun = 0
    /\ runs = <<>>
    /\ results = [c \in Range(Categories) |-> <<>>]
    /\ called = {}
    /\ discarded = {}

\* the main program examines no function on its own
NoProbe == [fn |-> "none"]

Init == InitWith(InputCases) /\ probe = NoProbe

(***************************************************************************)
(* main                                                                    *)
(***************************************************************************)
\* lines 364-366
InputMissing ==
    /\ pc = "start"
    /\ inputFile = "missing"
    /\ pc' = "done"
    /\ exitCode' = 1
    /\ UNCHANGED <<mainVars, loopVars, histVars, inputVars>>

\* lines 368-370 raise, lines 480-482 report and exit
LoadFails ==
    /\ pc = "start"
    /\ inputFile = "malformed"
    /\ pc' = "done"
    /\ exitCode' = 1
    /\ UNCHANGED <<mainVars, loopVars, histVars, inputVars>>

\* lines 368-391
LoadExisting ==
    /\ pc = "start"
    /\ inputFile = "ok"
    /\ existing' = Dataset(inputCfg)
    /\ gaps' = Gaps(existing')
    /\ pc' = "check"
    /\ UNCHANGED <<exitCode, catIdx, all_new, all_artworks, output, outDirMade,
                   loopVars, histVars, inputVars>>

\* lines 397-399
NothingNeeded ==
    /\ pc = "check"
    /\ TotalNeeded(gaps) = 0
    /\ pc' = "done"
    /\ exitCode' = 0
    /\ UNCHANGED <<mainVars, loopVars, histVars, inputVars>>

\* lines 402-405
BadCredential ==
    /\ pc = "check"
    /\ TotalNeeded(gaps) # 0
    /\ BadKey(GEMINI_KEY)
    /\ pc' = "done"
    /\ exitCode' = 1
    /\ UNCHANGED <<mainVars, loopVars, histVars, inputVars>>

\* lines 407-413
Configure ==
    /\ pc = "check"
    /\ TotalNeeded(gaps) # 0
    /\ ~BadKey(GEMINI_KEY)
    /\ outDirMade' = TRUE
    /\ all_new' = <<>>
    /\ catIdx' = 1
    /\ pc' = "loop"
    /\ UNCHANGED <<exitCode, existing, gaps, all_artworks, output,
                   loopVars, histVars, inputVars>>

\* lines 416-418
SkipCategory ==
    /\ pc = "loop"
    /\ catIdx <= Len(Categories)
    /\ gaps[Categories[catIdx]] = 0
    /\ catIdx' = catIdx + 1
    /\ UNCHANGED <<pc, exitCode, existing, gaps, all_new, all_artworks, output,
                   outDirMade, loopVars, histVars, inputVars>>

\* line 421, lines 291-299
CallGenerateCategory ==
    /\ pc = "loop"
    /\ catIdx <= Len(Categories)
    /\ gaps[Categories[catIdx]] # 0
    /\ target' = gaps[Categories[catIdx]]
    /\ new_artworks' = <<>>
    /\ attempts' = 0
    /\ consecutive_low_yield' = 0
    /\ max_attempts' = MaxAttempts(target')
    /\ iterations' = 0
    /\ lowRun' = 0
    /\ runs' = Append(runs, <<Categories[catIdx], target'>>)
    /\ pc' = "running"
    /\ UNCHANGED <<exitCode, mainVars, remaining, batch_size, batch, lastSleep,
                   raised, known, results, called, discarded, inputVars>>

(***************************************************************************)
(* generate_category: one iteration of the while loop.                     *)
(***************************************************************************)
\* mutant: the exception leaves generate_category and ends the process
BatchRaises_Propagates ==
    /\ pc = "running"
    /\ LoopGuard(Len(new_artworks), target, attempts, max_attempts)
    /\ attempts' = attempts + 1
    /\ iterations' = iterations + 1
    /\ raised' = TRUE
    /\ pc' = "done"
    /\ exitCode' = 1
    /\ UNCHANGED <<mainVars, target, new_artworks, consecutive_low_yield,
                   max_attempts, remaining, batch_size, batch, lastSleep, known,
                   lowRun, runs, results, called, discarded, inputVars>>

\* lines 301-317 and 343-346: generate_batch raises (the generation call fails,
\* the text does not parse, or the parsed value is no list)
BatchRaises ==
    /\ pc = "running"
    /\ LoopGuard(Len(new_artworks), target, attempts, max_attempts)
    /\ \E failure \in Failures :
          /\ attempts' = attempts + 1
          /\ remaining' = target - Len(new_artworks)
          /\ batch_size' = BatchSize(attempts', remaining')
          /\ known' = Known(existing, new_artworks)
          /\ called' = called \cup {Categories[catIdx]}
          /\ raised' = TRUE
          /\ lastSleep' = DELAY_SECONDS * 2
          /\ iterations' = iterations + 1
          /\ lowRun' = 0
    /\ UNCHANGED <<pc, exitCode, mainVars, target, new_artworks, batch,
                   consecutive_low_yield, max_attempts, runs, results, discarded,
                   inputVars>>

\* lines 301-341: generate_batch returns the filtered batch
BatchReturns ==
    /\ pc = "running"
    /\ LoopGuard(Len(new_artworks), target, attempts, max_attempts)
    /\ attempts' = attempts + 1
    /\ remaining' = target - Len(new_artworks)
    /\ batch_size' = BatchSize(attempts', remaining')
    /\ known' = Known(existing, new_artworks)
    /\ \E existing_keys \in {ExistingKeys(known')} :
       \E response \in Answers(generator, batch_size', catIdx, Len(new_artworks)) :
          LET is_low == LowYield(Len(batch'), batch_size')
              low == IF is_low THEN consecutive_low_yield + 1 ELSE 0
              \* an extended backoff after a parsed batch starts a new streak
              run == IF ~raised /\ lastSleep = DELAY_SECONDS * 2 THEN 0 ELSE lowRun
          IN  /\ batch' = Fresh(UniqueNew(response, existing_keys),
                                catIdx, Len(new_artworks))
              /\ called' = called \cup {Categories[catIdx]}
              /\ raised' = FALSE
              /\ new_artworks' = Extend(new_artworks, ToAdd(batch', remaining'))
              /\ discarded' = discarded \cup Overflow(batch', remaining')
              /\ consecutive_low_yield' = IF low >= 3 THEN 0 ELSE low
              /\ lastSleep' = Pause(low, Len(new_artworks'), target)
              /\ iterations' = iterations + 1
              /\ lowRun' = IF is_low THEN run + 1 ELSE 0
    /\ UNCHANGED <<pc, exitCode, mainVars, target, max_attempts, runs, results,
                   inputVars>>

\* mutant: main adds the returned records to existing
ReturnCategory_ExtendsExisting ==
    /\ pc = "running"
    /\ ~LoopGuard(Len(new_artworks), target, attempts, max_attempts)
    /\ existing' = existing \o new_artworks
    /\ all_new' = all_new \o new_artworks
    /\ results' = [results EXCEPT ![Categories[catIdx]] = new_artworks]
    /\ catIdx' = catIdx + 1
    /\ target' = 0
    /\ new_artworks' = <<>>
    /\ attempts' = 0
    /\ consecutive_low_yield' = 0
    /\ max_attempts' = 0
    /\ remaining' = 0
    /\ batch_size' = 0
    /\ batch' = <<>>
    /\ lastSleep' = 0
    /\ raised' = FALSE
    /\ known' = <<>>
    /\ iterations' = 0
    /\ lowRun' = 0
    /\ pc' = "loop"
    /\ UNCHANGED <<exitCode, gaps, all_artworks, output, outDirMade,
                   runs, called, discarded, inputVars>>

\* lines 348-351, lines 422-423; the locals of generate_category and the
\* history of the run end with it
ReturnCategory ==
    /\ pc = "running"
    /\ ~LoopGuard(Len(new_artworks), target, attempts, max_attempts)
    /\ all_new' = all_new \o new_artworks
    /\ results' = [results EXCEPT ![Categories[catIdx]] = new_artworks]
    /\ catIdx' = catIdx + 1
    /\ target' = 0
    /\ new_artworks' = <<>>
    /\ attempts' = 0
    /\ consecutive_low_yield' = 0
    /\ max_attempts' = 0
    /\ remaining' = 0
    /\ batch_size' = 0
    /\ batch' = <<>>
    /\ lastSleep' = 0
    /\ raised' = FALSE
    /\ known' = <<>>
    /\ iterations' = 0
    /\ lowRun' = 0
    /\ pc' = "loop"
    /\ UNCHANGED <<exitCode, existing, gaps, all_artworks, output, outDirMade,
                   runs, called, discarded, inputVars>>

\* mutant: the file is written before the last category is run
MergeAndSave_Early ==
    /\ pc = "loop"
    /\ catIdx >= Len(Categories)
    /\ all_artworks' = Renumber(existing \o all_new)
    /\ existing' = SubSeq(all_artworks', 1, Len(existing))
    /\ all_new' = SubSeq(all_artworks', Len(existing) + 1, Len(all_artworks'))
    /\ output' = Append(output, [totalArtworks |-> Len(all_artworks'),
                                 originalCount |-> Len(existing),
                                 additionalGenerated |-> Len(all_new),
                                 artworks |-> all_artworks'])
    /\ pc' = "done"
    /\ exitCode' = 0
    /\ UNCHANGED <<gaps, catIdx, outDirMade, loopVars, histVars, inputVars>>

\* lines 425-453; the id is assigned to the records themselves, so the records
\* of existing carry the new ids as well
MergeAndSave ==
    /\ pc = "loop"
    /\ catIdx > Len(Categories)
    /\ all_artworks' = Renumber(existing \o all_new)
    /\ existing' = SubSeq(all_artworks', 1, Len(existing))
    /\ all_new' = SubSeq(all_artworks', Len(existing) + 1, Len(all_artworks'))
    /\ output' = Append(output, [totalArtworks |-> Len(all_artworks'),
                                 originalCount |-> Len(existing),
                                 additionalGenerated |-> Len(all_new),
                                 artworks |-> all_artworks'])
    /\ pc' = "done"
    /\ exitCode' = 0
    /\ UNCHANGED <<gaps, catIdx, outDirMade, loopVars, histVars, inputVars>>

Next ==
    \/ InputMissing
    \/ LoadFails
    \/ LoadExisting
    \/ NothingNeeded
    \/ BadCredential
    \/ Configure
    \/ SkipCategory
    \/ CallGenerateCategory
    \/ BatchRaises
    \/ BatchReturns
    \/ ReturnCategory
    \/ MergeAndSave

Spec == Init /\ [][Next]_vars

\* Every step of the script returns or raises, so the script runs on.  The
\* behaviours are those of a few of the inputs.
LiveCases ==
    {<<[short |-> g, extra |-> <<>>], "any">> :
        g \in {<<0, 0, 0>>, <<1, 0, 1>>, <<0, 1, 0>>}}

LiveInit == InitWith(LiveCases) /\ probe = NoProbe

LiveSpec == LiveInit /\ [][Next]_vars /\ WF_vars(Next)

(***************************************************************************)
(* The script with a cooperative generator: the input file and the         *)
(* credential are in order, no call fails, and every response holds as     *)
(* many new records as were requested.                                     *)
(***************************************************************************)
MaxTarget == 35

\* the painting category is 1..MaxTarget records short
CoopCases ==
    {<<[short |-> <<t, 0, 0>>, extra |-> <<>>], "full">> : t \in 1..MaxTarget}

CoopInit ==
    /\ inputFile = "ok"
    /\ GEMINI_KEY = "key"
    /\ InitWith(CoopCases)
    /\ probe = NoProbe

CoopNext ==
    \/ LoadExisting
    \/ Configure
    \/ SkipCategory
    \/ CallGenerateCategory
    \/ BatchReturns
    \/ ReturnCategory
    \/ MergeAndSave

CoopSpec == CoopInit /\ [][CoopNext]_vars

(***************************************************************************)
(* Functions examined on their own: the program is not started, an         *)
(* argument is drawn in the initial state and the function is applied.     *)
(***************************************************************************)
progVars == <<pc, exitCode, mainVars, loopVars, histVars, inputFile, inputCfg,
              GEMINI_KEY, generator>>

Unstarted ==
    /\ inputFile = "missing"
    /\ GEMINI_KEY = ""
    /\ InitWith({<<NoConfig, "any">>})

\* all strings over the alphabet of at most n characters
RECURSIVE Texts(_, _)
Texts(alphabet, n) ==
    IF n = 0 THEN {<<>>}
    ELSE LET shorter == Texts(alphabet, n - 1)
         IN  shorter \cup {Append(t, c) : t \in shorter, c \in alphabet}

(***************************************************************************)
(* The key of a record, lines 266-273.                                     *)
(***************************************************************************)
MaxText == 2
MaxVary == 2

\* space, A, b
KeyAlphabet == {32, 65, 98}

\* stands for a field the record does not have; no text has this form
Absent == <<-1>>

\* a record with the given artist and title, either of which may be absent
KeyRecord(artist, title) ==
    LET a == IF artist = Absent THEN [category |-> "painting"]
             ELSE [category |-> "painting", artist |-> artist]
    IN  IF title = Absent THEN a ELSE SetField(a, "title", title)

KeyRecords ==
    LET fields == Texts(KeyAlphabet, MaxText) \cup {Absent}
    IN  {KeyRecord(a, t) : a \in fields, t \in fields}

\* the other case of a letter
SwapCase(c) ==
    IF c >= 65 /\ c <= 90 THEN c + 32
    ELSE IF c >= 97 /\ c <= 122 THEN c - 32
    ELSE c

\* the texts one step from text: one letter in the other case, one more
\* space in front or behind
TextVariants(text) ==
    {[text EXCEPT ![i] = SwapCase(text[i])] : i \in 1..Len(text)}
    \cup {<<32>> \o text, text \o <<32>>}

\* the records one step from r: a field varied, an empty field removed, an
\* absent field made empty
RecordVariants(r) ==
    UNION {IF field \in DOMAIN r
           THEN {SetField(r, field, v) : v \in TextVariants(r[field])}
                \cup (IF r[field] = <<>>
                      THEN {[f \in DOMAIN r \ {field} |-> r[f]]}
                      ELSE {})
           ELSE {SetField(r, field, <<>>)} : field \in {"artist", "title"}}

KeyInit ==
    /\ Unstarted
    /\ \E r \in KeyRecords :
          probe = [fn |-> "key", stage |-> "drawn", record |-> r, variant |-> r,
                   varied |-> 0, key |-> <<>>, again |-> <<>>,
                   ofVariant |-> <<>>, ofNormal |-> <<>>]

\* another record that differs from the drawn one in case, surrounding
\* whitespace and absent against empty fields only
KeyVary ==
    /\ probe.stage = "drawn"
    /\ probe.varied < MaxVary
    /\ \E v \in RecordVariants(probe.variant) :
          probe' = [probe EXCEPT !.variant = v, !.varied = @ + 1]
    /\ UNCHANGED progVars

\* lines 266-273: the key of the record, of its variant, and of the record
\* whose fields were replaced by their normal forms
KeyCompute ==
    /\ probe.stage = "drawn"
    /\ LET r == probe.record
           normal == [f \in DOMAIN r |->
                         IF f \in {"artist", "title"} THEN Strip(Lower(r[f]))
                         ELSE r[f]]
       IN  probe' = [probe EXCEPT !.stage = "keyed",
                                  !.key = Key(r),
                                  !.ofVariant = Key(probe.variant),
                                  !.ofNormal = Key(normal)]
    /\ UNCHANGED progVars

\* the key of the same record, computed once more
KeyAgain ==
    /\ probe.stage = "keyed"
    /\ probe' = [probe EXCEPT !.stage = "rekeyed", !.again = Key(probe.record)]
    /\ UNCHANGED progVars

KeyNext == KeyVary \/ KeyCompute \/ KeyAgain

KeySpec == KeyInit /\ [][KeyNext]_vars

(***************************************************************************)
(* The cleanup of the response text and its parse, lines 249-263.  A text  *)
(* is a sequence of code points; the parse covers arrays of objects whose  *)
(* members are strings without escapes.                                    *)
(***************************************************************************)
MaxRecords == 2

\* the index of the first character at or after i that is no whitespace
RECURSIVE SkipSpace(_, _)
SkipSpace(text, i) ==
    IF i <= Len(text) /\ IsSpace(text[i]) THEN SkipSpace(text, i + 1) ELSE i

HasAt(text, i, marker) ==
    /\ i + Len(marker) - 1 <= Len(text)
    /\ SubSeq(text, i, i + Len(marker) - 1) = marker

\* re.sub(marker + r'\s*', '', text), from position i on
RECURSIVE RemoveAll(_, _, _)
RemoveAll(text, marker, i) ==
    IF i > Len(text) THEN <<>>
    ELSE IF HasAt(text, i, marker)
         THEN RemoveAll(text, marker, SkipSpace(text, i + Len(marker)))
         ELSE <<text[i]>> \o RemoveAll(text, marker, i + 1)

\* line 257: re.sub(r',\s*([\]}])', r'\1', text), from position i on
RECURSIVE RemoveTrailingCommas(_, _)
RemoveTrailingCommas(text, i) ==
    IF i > Len(text) THEN <<>>
    ELSE LET j == SkipSpace(text, i + 1)
         IN  IF text[i] = 44 /\ j <= Len(text) /\ text[j] \in {93, 125}
             THEN <<text[j]>> \o RemoveTrailingCommas(text, j + 1)
             ELSE <<text[i]>> \o RemoveTrailingCommas(text, i + 1)

\* ```json and ```
JsonFence == <<96, 96, 96, 106, 115, 111, 110>>
Fence == <<96, 96, 96>>

\* lines 252-257
Sanitize(text) ==
    LET unfenced == RemoveAll(RemoveAll(text, JsonFence, 1), Fence, 1)
    IN  RemoveTrailingCommas(Strip(unfenced), 1)

Punct(c) == [kind |-> "punct", text |-> <<c>>]

\* the index of the first double quote at or after i, 0 if there is none
RECURSIVE NextQuote(_, _)
NextQuote(text, i) ==
    IF i > Len(text) THEN 0
    ELSE IF text[i] = 34 THEN i
    ELSE NextQuote(text, i + 1)

\* json.loads, lexical part: brackets, braces, commas, colons and strings
RECURSIVE Tokens(_, _)
Tokens(text, i) ==
    IF i > Len(text) THEN <<>>
    ELSE IF IsSpace(text[i]) THEN Tokens(text, i + 1)
    ELSE IF text[i] \in {91, 93, 123, 125, 44, 58}
         THEN <<Punct(text[i])>> \o Tokens(text, i + 1)
    ELSE IF text[i] = 34 /\ NextQuote(text, i + 1) > 0
         THEN LET close == NextQuote(text, i + 1)
              IN  <<[kind |-> "string", text |-> SubSeq(text, i + 1, close - 1)]>>
                  \o Tokens(text, close + 1)
    ELSE <<[kind |-> "bad", text |-> <<>>]>>

\* json.JSONDecodeError, or the ValueError of line 263
Malformed == [ok |-> FALSE, value |-> <<>>, next |-> 0]

\* the members of an object from token i on: name : string, separated by
\* commas, closed by a brace; an object is kept as its name and value pairs
RECURSIVE ParseMembers(_, _)
ParseMembers(t, i) ==
    IF \/ i + 3 > Len(t)
       \/ t[i].kind # "string" \/ t[i + 1] # Punct(58) \/ t[i + 2].kind # "string"
    THEN Malformed
    ELSE LET pair == <<t[i].text, t[i + 2].text>>
         IN  IF t[i + 3] = Punct(125)
             THEN [ok |-> TRUE, value |-> <<pair>>, next |-> i + 4]
             ELSE IF t[i + 3] = Punct(44)
             THEN LET rest == ParseMembers(t, i + 4)
                  IN  IF rest.ok
                      THEN [rest EXCEPT !.value = <<pair>> \o @]
                      ELSE Malformed
             ELSE Malformed

ParseObject(t, i) ==
    IF i + 1 > Len(t) \/ t[i] # Punct(123) THEN Malformed
    ELSE IF t[i + 1] = Punct(125)
    THEN [ok |-> TRUE, value |-> <<>>, next |-> i + 2]
    ELSE ParseMembers(t, i + 1)

\* the elements of an array from token i on, up to the closing bracket that
\* must be the last token
RECURSIVE ParseElements(_, _)
ParseElements(t, i) ==
    LET object == ParseObject(t, i)
    IN  IF ~object.ok \/ object.next > Len(t) THEN Malformed
        ELSE IF t[object.next] = Punct(93)
        THEN IF object.next = Len(t)
             THEN [ok |-> TRUE, value |-> <<object.value>>, next |-> object.next + 1]
             ELSE Malformed
        ELSE IF t[object.next] = Punct(44)
        THEN LET rest == ParseElements(t, object.next + 1)
             IN  IF rest.ok
                 THEN [rest EXCEPT !.value = <<object.value>> \o @]
                 ELSE Malformed
        ELSE Malformed

\* lines 260-263: json.loads(text, strict=False) and the test for a list
Loads(text) ==
    LET t == Tokens(text, 1)
    IN  IF Len(t) < 2 \/ t[1] # Punct(91) THEN Malformed
        ELSE IF t = <<Punct(91), Punct(93)>>
        THEN [ok |-> TRUE, value |-> <<>>, next |-> 3]
        ELSE ParseElements(t, 2)

\* a, comma, closing bracket, backquote: what a title is made of here
TitleAlphabet == {97, 44, 93, 96}

\* {"t": "<title>"}
ObjectText(title) == <<123, 34, 116, 34, 58, 32, 34>> \o title \o <<34, 125>>

\* the objects separated by a comma and a space
RECURSIVE Joined(_)
Joined(titles) ==
    IF titles = <<>> THEN <<>>
    ELSE IF Len(titles) = 1 THEN ObjectText(titles[1])
    ELSE ObjectText(titles[1]) \o <<44, 32>> \o Joined(Tail(titles))

\* a well-formed JSON array of records with the given titles
ArrayText(titles) == <<91>> \o Joined(titles) \o <<93>>

\* the same array as a generator may send it: inside a fence, a comma
\* before the closing bracket
Wrapped(text, fence) ==
    fence \o <<10>> \o SubSeq(text, 1, Len(text) - 1) \o <<44, 93, 10>> \o Fence

TitleLists ==
    UNION {[1..n -> Texts(TitleAlphabet, MaxText)] : n \in 0..MaxRecords}

SanitizeInit ==
    /\ Unstarted
    /\ \E titles \in TitleLists :
          probe = [fn |-> "sanitize", stage |-> "drawn", titles |-> titles,
                   original |-> ArrayText(titles), direct |-> Malformed,
                   text |-> <<>>, result |-> Malformed]

\* the original text, parsed as it is
LoadsDirectly ==
    /\ probe.stage = "drawn"
    /\ probe' = [probe EXCEPT !.stage = "known", !.direct = Loads(probe.original)]
    /\ UNCHANGED progVars

\* line 249: response.text is the array in a fence with a trailing comma
Respond ==
    /\ probe.stage = "known"
    /\ \E fence \in {JsonFence, Fence} :
          probe' = [probe EXCEPT !.stage = "received",
                                 !.text = Wrapped(probe.original, fence)]
    /\ UNCHANGED progVars

\* lines 252-257
Clean ==
    /\ probe.stage = "received"
    /\ probe' = [probe EXCEPT !.stage = "clean", !.text = Sanitize(probe.text)]
    /\ UNCHANGED progVars

\* lines 260-263
Parse ==
    /\ probe.stage = "clean"
    /\ probe' = [probe EXCEPT !.stage = "parsed", !.result = Loads(probe.text)]
    /\ UNCHANGED progVars

SanitizeNext == LoadsDirectly \/ Respond \/ Clean \/ Parse

SanitizeSpec == SanitizeInit /\ [][SanitizeNext]_vars

(***************************************************************************)
(* The filter of generate_batch on its own, lines 265-282.                 *)
(***************************************************************************)
MaxResponse == 3

\* "a:b" by "c" and "a" by "b:c"
RG == [artist |-> <<97, 58, 98>>, title |-> <<99>>, category |-> "painting"]
RH == [artist |-> <<97>>, title |-> <<98, 58, 99>>, category |-> "painting"]

\* records a response or the known list may hold: RA and RB have one key,
\* RC and RD differ from them and from each other, RG and RH hold a colon
FilterRecords == {RA, RB, RC, RD, RG, RH}

FilterResponses == UNION {[1..n -> FilterRecords] : n \in 0..MaxResponse}

FilterKnown == {<<>>, <<RA, RB>>} \cup {<<r>> : r \in FilterRecords}

FilterInit ==
    /\ Unstarted
    /\ \E existing_artworks \in FilterKnown, artworks \in FilterResponses :
          probe = [fn |-> "filter", stage |-> "drawn",
                   existing_artworks |-> existing_artworks,
                   artworks |-> artworks, unique_new |-> <<>>]

\* lines 265-282
Filter ==
    /\ probe.stage = "drawn"
    /\ probe' = [probe EXCEPT
                    !.stage = "filtered",
                    !.unique_new = UniqueNew(probe.artworks,
                                             ExistingKeys(probe.existing_artworks))]
    /\ UNCHANGED progVars

FilterNext == Filter

FilterSpec == FilterInit /\ [][FilterNext]_vars

(***************************************************************************)
(* Properties.                                                             *)
(***************************************************************************)
KeySet(list) == {Key(list[i]) : i \in 1..Len(list)}

\* the keys of the records of list are pairwise distinct
DistinctKeys(list) == Cardinality(KeySet(list)) = Len(list)

ObjSet(list) == {list[i]["obj"] : i \in 1..Len(list)}

WithoutId(r) == [f \in DOMAIN r \ {"id"} |-> r[f]]

\* generate_category stopped iterating and is about to return
Stopped == pc = "running" /\ ~(Len(new_artworks) < target /\ attempts < max_attempts)

Written == output # <<>>

\* the loop counter counts the iterations and stays within the budget
C1_Bounded ==
    pc = "running" =>
        /\ iterations = attempts
        /\ iterations <= (target \div BATCH_SIZE) + 20

\* a step inside the loop is one more iteration; the loop is left with target
\* records or with the budget used up
C1_Leaves ==
    [][/\ (pc = "running" /\ pc' = "running") =>
             /\ iterations' = iterations + 1
             /\ target' = target
       /\ (pc = "running" /\ pc' # "running") =>
             /\ Len(new_artworks) >= target
                  \/ iterations >= (target \div BATCH_SIZE) + 20
             /\ (target = 10 /\ new_artworks = <<>>) => iterations = 21]_vars

\* the loop is never stuck: it can iterate, or it can return
C1_Moves ==
    pc = "running" => IF Stopped THEN ENABLED ReturnCategory ELSE ENABLED BatchRaises

(* C1: a run of generate_category makes at most (target div BATCH_SIZE) + 20  *)
(* iterations, whatever the generator does: every step inside the loop is one *)
(* more iteration, the loop can always take a step or return, and when it     *)
(* returns it has target records or has used all the attempts; with target 10 *)
(* and nothing accepted it returns after exactly 21 iterations.               *)
C1_TerminationBound == []C1_Bounded /\ C1_Leaves /\ []C1_Moves

C1_Witness ==
    pc = "running" /\ target = 10 /\ iterations = 21 /\ new_artworks = <<>>

(* C2: when the input records have pairwise distinct keys, the records of the *)
(* written dataset have pairwise distinct keys.                               *)
C2_NoDuplicateKeysInOutput ==
    (pc = "done" /\ Written /\ DistinctKeys(Dataset(inputCfg))) =>
        DistinctKeys(all_artworks)

(* C3, as claimed: during and at the end of a run of generate_category the    *)
(* keys of existing plus the accumulated records are pairwise distinct, for   *)
(* any existing list.                                                         *)
C3_AllPairsDistinct ==
    pc = "running" => DistinctKeys(existing \o new_artworks)

(* C3, amended: every accumulated record has a key that no existing record    *)
(* has and that no other accumulated record has.  The accumulated records are *)
(* compared with the existing ones whenever a batch has brought new records;  *)
(* between two such batches neither list changes.                             *)
C3_AccumulatedDistinct ==
    /\ (pc = "running" /\ new_artworks # <<>>) => DistinctKeys(new_artworks)
    /\ (pc = "running" /\ ~raised /\ batch # <<>>) =>
          KeySet(new_artworks) \cap KeySet(existing) = {}

C3_Witness ==
    pc = "running" /\ Len(new_artworks) >= 2 /\ ~DistinctKeys(existing)

(* C4: the accumulated list never has more than target records; an iteration  *)
(* appends exactly the first remaining records of its batch; with target 5    *)
(* and a batch of 8 unique records 5 are kept and 3 dropped; a dropped record *)
(* is never part of a result.                                                 *)
C4_NeverExceedTarget ==
    /\ pc = "running" => Len(new_artworks) <= target
    /\ (pc = "running" /\ iterations > 0 /\ ~raised) =>
          LET k == IF Len(batch) < remaining THEN Len(batch) ELSE remaining
              n == Len(new_artworks)
          IN  /\ n >= k
              /\ remaining = target - (n - k)
              /\ \A i \in 1..k : new_artworks[n - k + i] = batch[i]
    /\ (pc = "running" /\ ~raised /\ target = 5 /\ remaining = 5 /\ Len(batch) = 8) =>
          /\ Len(new_artworks) = 5
          /\ Cardinality(discarded) = 3
    /\ (pc = "running" /\ Len(new_artworks) >= target) => Len(new_artworks) = target
    /\ \A d \in discarded : d["obj"] \notin ObjSet(all_new \o new_artworks)

C4_Witness ==
    /\ pc = "running" /\ ~raised /\ target = 5 /\ remaining = 5
    /\ Len(batch) = 8 /\ Len(new_artworks) = 5

\* what a failing iteration and the return do
C5_Step ==
    [][/\ pc = "running" => (pc' \in {"running", "loop"} /\ exitCode' = -1)
       /\ (pc = "running" /\ raised' /\ iterations' # iterations) =>
             /\ attempts' = attempts + 1
             /\ new_artworks' = new_artworks
             /\ pc' = "running"
       /\ (pc = "running" /\ pc' = "loop") =>
             /\ results'[Categories[catIdx]] = new_artworks
             /\ all_new' = all_new \o new_artworks
             /\ Len(new_artworks) <= target]_vars

(* C5: a failure of generate_batch never leaves generate_category: the        *)
(* iteration counts as an attempt, adds no record, and the loop goes on with  *)
(* the next attempt while attempts are left; the process does not end during  *)
(* a run, and the run returns the accumulated list, which may be shorter than *)
(* target.                                                                    *)
C5_FailureAbsorbed ==
    /\ C5_Step
    /\ [](pc = "running" /\ raised /\ ~Stopped => ENABLED BatchRaises)

C5_Witness ==
    /\ pc = "running" /\ raised /\ attempts = max_attempts
    /\ Len(new_artworks) < target

(* C6, as claimed: a run that ends with the input file present (and loaded)  *)
(* and the credential set has written the output file.                        *)
C6_AlwaysWrites ==
    (pc = "done" /\ inputFile = "ok" /\ GEMINI_KEY = "key") => Written

(* C6, amended: a run that has loaded its input, with at least one category   *)
(* short of its desired total and the credential set, eventually writes the   *)
(* output file, and it writes only after the loop over the categories ended.  *)
C6_WritesWhenNeeded ==
    /\ [](Written => (pc = "done" /\ catIdx > Len(Categories)))
    /\ ((pc = "check" /\ (\E c \in Range(Categories) : gaps[c] > 0)
            /\ GEMINI_KEY = "key") ~> Written)

C6_Witness ==
    /\ Written
    /\ \A c \in Range(Categories) : gaps[c] > 0 => Len(results[c]) < gaps[c]

(* C7: in the written dataset the record at position i (from 1) has id i;     *)
(* the records are those of the input, in order, then the results of          *)
(* painting, sculpture and architecture, each in the order accepted; nothing  *)
(* but the id differs from the record as loaded or accepted.                  *)
C7_FinalRenumbering ==
    (pc = "done" /\ Written) =>
        LET merged == Dataset(inputCfg) \o results["painting"]
                      \o results["sculpture"] \o results["architecture"]
        IN  /\ Len(all_artworks) = Len(merged)
            /\ \A i \in 1..Len(all_artworks) :
                  /\ all_artworks[i]["id"] = i
                  /\ WithoutId(all_artworks[i]) = WithoutId(merged[i])
            /\ output[1]["artworks"] = all_artworks

C7_Witness ==
    /\ pc = "done" /\ Written
    /\ results["painting"] # <<>> /\ results["architecture"] # <<>>
    /\ Dataset(inputCfg)[1]["id"] # 1

(* C8: the written dataset has as many records as the three categories count  *)
(* together.                                                                  *)
C8_LengthIsSumOfCounts ==
    (pc = "done" /\ Written) =>
        Len(all_artworks) = CountIn(all_artworks, "painting")
                            + CountIn(all_artworks, "sculpture")
                            + CountIn(all_artworks, "architecture")

(* C9, as claimed: with the input file missing or the credential empty or the *)
(* placeholder, the process ends with a non-zero status, without a generation *)
(* call, without creating the directory and without writing.                  *)
C9_ConfigErrorFatal ==
    (pc = "done" /\ (inputFile = "missing" \/ GEMINI_KEY # "key")) =>
        /\ exitCode # 0
        /\ called = {} /\ runs = <<>> /\ ~outDirMade /\ ~Written

(* C9, amended: with the input file missing or the credential empty or the    *)
(* placeholder there is never a generation call, a directory or an output;    *)
(* the status is non-zero when the file is missing, and when the credential   *)
(* is bad and a category is short of its desired total.                       *)
C9_ConfigErrorNoOutput ==
    /\ (inputFile = "missing" \/ GEMINI_KEY = "" \/ GEMINI_KEY = "YOUR_ACTUAL_API_KEY_HERE") =>
          called = {} /\ runs = <<>> /\ ~outDirMade /\ ~Written
    /\ (pc = "done" /\ inputFile = "missing") => exitCode = 1
    /\ (pc = "done" /\ inputFile = "ok" /\ (\E c \in Range(Categories) : gaps[c] > 0)
          /\ (GEMINI_KEY = "" \/ GEMINI_KEY = "YOUR_ACTUAL_API_KEY_HERE")) => exitCode = 1

C9_Witness ==
    pc = "done" /\ GEMINI_KEY = "" /\ inputFile = "ok" /\ gaps["sculpture"] > 0

(* C10: generate_category is called at most once per category, in the order   *)
(* painting, sculpture, architecture, with target max(0, desired - count) for *)
(* the desired totals 200, 64 and 64, and not at all for a category whose gap *)
(* is 0; the generator is called only for the category whose run is open.     *)
C10_Desired(c) == IF c = "painting" THEN 200 ELSE 64

\* the calls made once the first n categories have been dealt with
RECURSIVE C10_Expected(_)
C10_Expected(n) ==
    IF n = 0 THEN <<>>
    ELSE IF gaps[Categories[n]] = 0 THEN C10_Expected(n - 1)
    ELSE Append(C10_Expected(n - 1), <<Categories[n], gaps[Categories[n]]>>)

C10_CategoryDriver ==
    /\ pc = "check" =>
          \A c \in {"painting", "sculpture", "architecture"} :
              LET short == C10_Desired(c) - CountIn(existing, c)
              IN  gaps[c] = IF short > 0 THEN short ELSE 0
    /\ pc = "loop" =>
          /\ runs = C10_Expected(catIdx - 1)
          /\ called \subseteq {runs[i][1] : i \in 1..Len(runs)}
    /\ pc = "running" =>
          /\ runs = C10_Expected(catIdx)
          /\ runs[Len(runs)] = <<Categories[catIdx], target>>
          /\ target > 0
          /\ called \subseteq {runs[i][1] : i \in 1..Len(runs)}
          /\ \A k \in catIdx..Len(Categories) : results[Categories[k]] = <<>>
    /\ pc = "done" => called \subseteq {runs[i][1] : i \in 1..Len(runs)}
    /\ (pc = "done" /\ Written) => runs = C10_Expected(Len(Categories))

C10_Witness ==
    /\ pc = "running" /\ Categories[catIdx] = "architecture" /\ iterations > 0
    /\ gaps["painting"] > 0 /\ gaps["sculpture"] = 0


(* C11: the key of a record is the same whenever it is computed, it does   *)
(* not change when the record's artist and title are replaced by their     *)
(* lowercased, trimmed forms, and two records that differ only in letter   *)
(* case, in whitespace around the artist or the title, or in a field being *)
(* absent in one and the empty string in the other, have the same key.     *)
C11_KeyNormalization ==
    /\ probe.fn = "key" /\ probe.stage \in {"keyed", "rekeyed"}
            => /\ probe.ofVariant = probe.key
               /\ probe.ofNormal = probe.key
    /\ probe.fn = "key" /\ probe.stage = "rekeyed" => probe.again = probe.key

\* " A" by an absent title has been keyed together with " a" by "": the
\* variant differs in case, in whitespace and in the absent field
C11_Witness ==
    /\ probe.fn = "key" /\ probe.stage = "rekeyed"
    /\ probe.record = [category |-> "painting", artist |-> <<32, 65>>]
    /\ probe.variant = [category |-> "painting", artist |-> <<32, 97>>,
                        title |-> <<>>]
    /\ probe.key = <<97, 58>>

(* C12: a well-formed JSON array that arrives inside code-fence markers    *)
(* and with one comma before its closing bracket is parsed, after the      *)
(* cleanup, to the same records as the array's own text.                   *)
C12_SanitizerRoundTrip ==
    probe.fn = "sanitize" /\ probe.stage = "parsed"
        => /\ probe.direct.ok
           /\ probe.result.ok
           /\ probe.result.value = probe.direct.value

\* the part of C12 that holds: titles free of fences and of commas before
\* brackets come back unchanged
C12_PlainTitles ==
    /\ probe.fn = "sanitize" /\ probe.stage \in {"known", "received", "clean", "parsed"}
            => /\ probe.direct.ok
               /\ probe.direct.value
                      = [i \in 1..Len(probe.titles) |-> <<<<<<116>>, probe.titles[i]>>>>]
    /\ probe.fn = "sanitize" /\ probe.stage = "parsed"
       /\ (\A i \in 1..Len(probe.titles) :
              \A k \in 1..Len(probe.titles[i]) : probe.titles[i][k] = 97)
            => probe.result = probe.direct

\* the positions of a response whose record has a key that no known record
\* and no earlier record of the response has
C13_Kept ==
    {i \in 1..Len(probe.artworks) :
        /\ \A k \in 1..Len(probe.existing_artworks) :
              Key(probe.existing_artworks[k]) # Key(probe.artworks[i])
        /\ \A j \in 1..(i - 1) : Key(probe.artworks[j]) # Key(probe.artworks[i])}

(* C13: generate_batch returns exactly the records of the parsed response  *)
(* whose key is neither the key of a known record nor the key of an        *)
(* earlier record of the same response, in the order of the response; so   *)
(* the returned records have pairwise different keys and none has the key  *)
(* of a known record.                                                      *)
C13_FilterIsFirstOccurrences ==
    probe.fn = "filter" /\ probe.stage = "filtered"
        => /\ Len(probe.unique_new) = Cardinality(C13_Kept)
           /\ \A k \in 1..Len(probe.unique_new) :
                 \E i \in C13_Kept :
                    /\ Cardinality({j \in C13_Kept : j <= i}) = k
                    /\ probe.unique_new[k] = probe.artworks[i]
           /\ \A k \in 1..Len(probe.unique_new) :
                 /\ \A e \in 1..Len(probe.existing_artworks) :
                       Key(probe.existing_artworks[e]) # Key(probe.unique_new[k])
                 /\ \A j \in 1..(k - 1) :
                       Key(probe.unique_new[j]) # Key(probe.unique_new[k])

\* the response <<RB, RC, RA>> against the known record RC: RC is known and
\* RA has the key of RB, only RB is returned
C13_Witness ==
    /\ probe.fn = "filter" /\ probe.stage = "filtered"
    /\ probe.existing_artworks = <<RC>>
    /\ probe.artworks = <<RB, RC, RA>>
    /\ probe.unique_new = <<RB>>

(* C14: in every iteration at least one record is still needed, and the    *)
(* requested batch size is min(10 + min(5, attempts div 3), remaining + 5):*)
(* at least 1, at most remaining + 5 and at most 10 + 5.                   *)
C14_BatchSizeBounds ==
    pc = "running" /\ iterations > 0
        => /\ remaining >= 1
           /\ 1 <= batch_size
           /\ batch_size <= remaining + 5
           /\ batch_size <= 10 + 5
           /\ \/ batch_size = remaining + 5
              \/ batch_size = 10 + (attempts \div 3) /\ attempts \div 3 <= 5
              \/ batch_size = 10 + 5 /\ attempts \div 3 >= 5

\* the duplicate buffer has reached its cap of 5: 15 records are asked for
\* while 11 are needed
C14_Witness ==
    /\ pc = "running" /\ iterations > 0
    /\ attempts >= 18
    /\ remaining = 11
    /\ batch_size = 15

\* one iteration of the loop of generate_category, failed or not
IterationStep == pc = "running" /\ iterations' = iterations + 1

C15_PassedIsExistingPlusAccepted ==
    IterationStep => known' = existing \o new_artworks

\* the records accepted before the latest call
C15_AcceptedBefore == SubSeq(known, Len(existing) + 1, Len(known))

C15_NeverAcceptedAgain ==
    pc = "running" /\ iterations > 0 /\ ~raised
        => /\ C15_AcceptedBefore \o ToAdd(batch, remaining) = new_artworks
           /\ \A k \in 1..Len(batch) : \A j \in 1..Len(C15_AcceptedBefore) :
                 /\ Key(batch[k]) # Key(C15_AcceptedBefore[j])
                 /\ WithoutId(batch[k]) # WithoutId(C15_AcceptedBefore[j])

(* C15: the list passed to every generation call is the existing list      *)
(* followed by all records accepted in earlier iterations of the run, so   *)
(* no record of a later batch has the key of, or equals, a record accepted *)
(* earlier in the run.                                                     *)
C15_KnownContextGrows ==
    [][C15_PassedIsExistingPlusAccepted]_vars /\ []C15_NeverAcceptedAgain

\* a call was told to avoid a record accepted earlier, was answered with
\* that record again and accepted another one
C15_Witness ==
    /\ pc = "running" /\ iterations >= 2 /\ ~raised
    /\ Len(C15_AcceptedBefore) = 1
    /\ Key(C15_AcceptedBefore[1]) = <<97, 58, 98>>
    /\ Len(batch) = 1
    /\ Key(batch[1]) = <<97, 58, 99>>
    /\ Len(new_artworks) = 2

(* C16: within a run the accumulated list never gets shorter, and every    *)
(* record accepted so far stays the same record at the same position:      *)
(* each step of the run leaves the list or appends to it.                  *)
C16_Step ==
    pc = "running" /\ pc' = "running"
        => /\ Len(new_artworks') >= Len(new_artworks)
           /\ \A i \in 1..Len(new_artworks) : new_artworks'[i] = new_artworks[i]

C16_AccumulatedMonotone == [][C16_Step]_vars

\* a second batch has been appended behind a record accepted earlier
C16_Witness ==
    /\ pc = "running" /\ ~raised
    /\ Len(new_artworks) = 2
    /\ Len(batch) >= 1
    /\ new_artworks[2]["obj"] = batch[1]["obj"]
    /\ new_artworks[1]["obj"] = <<catIdx, 1>>

\* an iteration whose call returned a batch, and one whose call raised
ParsedStep == IterationStep /\ ~raised'
FailedStep == IterationStep /\ raised'

(* C17 as stated: a parsed batch is followed by the extended backoff of    *)
(* 4 seconds exactly when it is the third of three consecutive iterations  *)
(* with a yield ratio below 0.5, and the streak counter is 0 afterwards.   *)
C17_ThreeConsecutiveIterations ==
    pc = "running" /\ iterations > 0 /\ ~raised
        => /\ lastSleep = 4 <=> lowRun = 3
           /\ lastSleep = 4 => consecutive_low_yield = 0

\* the streak counter: a low-yield batch advances it, the third one starts
\* the extended backoff and resets it, any other batch resets it, and a
\* failed iteration leaves it as it is
C17_Streak ==
    /\ ParsedStep =>
          LET is_low == 2 * Len(batch') < batch_size'
          IN  /\ lastSleep' = 4 <=> (is_low /\ consecutive_low_yield = 2)
              /\ consecutive_low_yield'
                    = IF ~is_low \/ consecutive_low_yield = 2 THEN 0
                      ELSE consecutive_low_yield + 1
    /\ FailedStep => consecutive_low_yield' = consecutive_low_yield

\* whether the loop goes on depends on the two counts only
C17_Termination ==
    /\ IterationStep => Len(new_artworks) < target /\ attempts < max_attempts
    /\ pc = "running" /\ pc' # "running"
          => Len(new_artworks) >= target \/ attempts >= max_attempts

(* C17: a parsed batch is followed by the extended backoff of 4 seconds    *)
(* exactly when it is the third low-yield batch (ratio below 0.5) since    *)
(* the last batch with a ratio of at least 0.5 or the last extended        *)
(* backoff; failed iterations in between neither count nor reset the       *)
(* streak.  The counter is 0 afterwards, and the loop ends exactly when    *)
(* the target is reached or the attempts are used up, whatever the streak. *)
C17_LowYieldStreak == [][C17_Streak /\ C17_Termination]_vars

\* the extended backoff after a parsed batch that was not the third
\* low-yield iteration in a row: a failed iteration lies in between
C17_Witness ==
    /\ pc = "running" /\ iterations > 0 /\ ~raised
    /\ lastSleep = 4
    /\ lowRun < 3
    /\ consecutive_low_yield = 0
    /\ Len(new_artworks) < target /\ attempts < max_attempts

(* C18: a failed iteration is followed by a pause of 4 seconds, a parsed   *)
(* batch by a pause of 2 or 4 seconds unless the run has all its records   *)
(* and no further call follows; so every pause is 2 or 4 seconds long and  *)
(* every generation call but the first of a run comes after a pause.       *)
C18_PauseBetweenCalls ==
    /\ [](pc = "running" /\ iterations > 0
            => /\ lastSleep \in {0, 2, 4}
               /\ raised => lastSleep = 4
               /\ lastSleep = 0 => Len(new_artworks) >= target)
    /\ [][IterationStep /\ iterations > 0 => lastSleep > 0]_vars

\* the second call of a run has failed like the first and is followed by
\* its pause; the third call can follow
C18_Witness ==
    /\ pc = "running" /\ iterations = 2 /\ raised
    /\ new_artworks = <<>>
    /\ batch = <<>>
    /\ lastSleep = 4
    /\ attempts < max_attempts

\* the steps from the load of the input file to the merge
C19_Frame ==
    /\ pc \in {"check", "loop", "running"} /\ pc' \in {"check", "loop", "running"}
          => existing' = existing
    /\ pc = "loop" /\ pc' = "running" => existing = Dataset(inputCfg)
    /\ IterationStep => SubSeq(known', 1, Len(existing)) = existing

\* the records behind the existing ones in the merged dataset passed the
\* filter: none has the key of an existing record
C19_NewPassedFilter ==
    pc = "done" /\ Written
        => /\ Len(all_artworks) >= Len(existing)
           /\ \A i \in 1..Len(existing) : all_artworks[i] = existing[i]
           /\ LET keys == KeySet(existing)
              IN  \A i \in (Len(existing) + 1)..Len(all_artworks) :
                     Key(all_artworks[i]) \notin keys

(* C19: from the load of the input file until the merge, no step changes   *)
(* the existing list or one of its records; every run of generate_category *)
(* gets the list as it was loaded and every generation call gets a list    *)
(* that starts with it; the records merged behind the existing ones have   *)
(* keys that no existing record has.                                       *)
C19_ExistingReadOnly == [][C19_Frame]_vars /\ []C19_NewPassedFilter

\* the second category is run after the first returned a record, and a
\* generation call has been made in it
C19_Witness ==
    /\ pc = "running" /\ iterations > 0
    /\ catIdx = 2
    /\ Len(all_new) = 1
    /\ Len(known) >= Len(existing)

(* C20: the output file is written at most once, only when the loop over   *)
(* the categories is over and every category with a gap has had its run    *)
(* returned; nothing is written while categories are run, and after the    *)
(* write there is no generation call and no second write.                  *)
C20_SingleFinalWrite ==
    /\ [](/\ Len(output) <= 1
          /\ pc \in {"start", "check", "loop", "running"} => output = <<>>
          /\ Written
                => /\ pc = "done"
                   /\ catIdx > 3
                   /\ new_artworks = <<>>
                   /\ Len(runs) = Cardinality({c \in Range(Categories) : gaps[c] > 0})
                   /\ called \subseteq {runs[i][1] : i \in 1..Len(runs)})
    /\ [][Written => /\ output' = output
                      /\ called' = called
                      /\ iterations' = iterations
                      /\ runs' = runs]_vars

\* the file has been written after two categories were run, one of which
\* came back short
C20_Witness ==
    /\ Written
    /\ Len(runs) = 2
    /\ Cardinality(called) = 2
    /\ \E i \in 1..2 : Len(results[runs[i][1]]) < runs[i][2]

(* C21: when an iteration leaves the run with all its target records, no   *)
(* pause is taken before generate_category returns.                        *)
C21_NoPauseWhenSatisfied ==
    pc = "running" /\ iterations > 0 /\ ~raised /\ Len(new_artworks) >= target
        => lastSleep = 0

(* C22: with a generator that answers every call with exactly batch_size   *)
(* records new to the run, generate_category stops with exactly target     *)
(* records after at most ceil(target / 10) attempts, which is within the   *)
(* budget of (target div 10) + 20 attempts.                                *)
C22_CooperativeBudget ==
    /\ pc = "running" /\ iterations > 0
          => /\ ~raised
             /\ Len(batch) = batch_size
             /\ Len(new_artworks) >= (IF 10 * attempts < target
                                      THEN 10 * attempts ELSE target)
    /\ Stopped
          => /\ Len(new_artworks) = target
             /\ attempts <= (target + 9) \div 10
             /\ attempts <= (target \div 10) + 20
             /\ attempts <= max_attempts

\* 25 records were wanted and are there after three calls for 10, 10 and 10
C22_Witness ==
    /\ Stopped
    /\ generator = "full"
    /\ target = 25
    /\ attempts = 3
    /\ batch_size = 10
    /\ Len(new_artworks) = 25

\* the lowercased, trimmed artist and title of a record
C23_Pair(r) ==
    <<Strip(Lower(Get(r, "artist", <<>>))), Strip(Lower(Get(r, "title", <<>>)))>>

(* C23: two records have the same key only if their lowercased, trimmed    *)
(* artists are equal and their lowercased, trimmed titles are equal; so a  *)
(* record of a response whose pair differs from the pair of every known    *)
(* record and of every earlier record of the response is returned.         *)
C23_KeyInjective ==
    probe.fn = "filter" /\ probe.stage = "filtered"
        => LET before == probe.existing_artworks \o probe.artworks
               n == Len(probe.existing_artworks)
           IN  /\ \A i, j \in 1..Len(before) :
                     Key(before[i]) = Key(before[j])
                        => C23_Pair(before[i]) = C23_Pair(before[j])
               /\ \A i \in 1..Len(probe.artworks) :
                     (\A j \in 1..(n + i - 1) :
                         C23_Pair(before[j]) # C23_Pair(probe.artworks[i]))
                        => \E k \in 1..Len(probe.unique_new) :
                              probe.unique_new[k] = probe.artworks[i]

=============================================================================
